---- MODULE Spec2Model ----
(***************************************************************************)
(* Versioned document store of Knowledge-Hub_server.                       *)
(*                                                                         *)
(* The model follows the transactional controller (createDocument,         *)
(* updateDocument, deleteDocument, restoreVersion, forceSummarize,         *)
(* forceTags), the Document model (pre('save') hook, createVersion,        *)
(* softDelete), the activity logger (logActivity) and the Gemini wrappers  *)
(* (summarizeText, generateTags, embedText).                               *)
(*                                                                         *)
(* Every HTTP request is a slot of `req`; a handler is cut into steps at   *)
(* its awaits on the database, so that requests interleave as they do on   *)
(* the event loop.  Writes made through a session are buffered in the      *)
(* request (`buf`) and reach `docs` only when the transaction commits;     *)
(* writes made without a session (Activity.create in logActivity, the      *)
(* save of forceSummarize / forceTags) reach the store at once.            *)
(***************************************************************************)
EXTENDS Integers, Sequences, FiniteSets, TLC

\* ---------------------------------------------------------------- bounds
MaxReq == 3          \* requests issued in one behaviour
MaxActive == 2       \* requests in flight at the same time
MaxDocs == 1         \* document ids that can be allocated

\* ------------------------------------------------------ program constants
MaxVersions == 10    \* createVersion keeps the last 10 ledger entries
SummaryMax == 220    \* summarizeText fallback: texts longer than this are cut
SummaryCut == 200    \* ... to their first 200 characters plus an ellipsis
TagCount == 6        \* generateTags(text, 6) in the controller
MaxTags == 10        \* slice(0, 10) on merged tag lists

Reqs == 1..MaxReq
DocIds == 1..MaxDocs
Users == {"u1", "u2", "admin"}
Titles == {"A", "B"}
Contents == {"x", "y"}
Undef == "undefined"
NoDoc == [absent |-> TRUE]
NoTags == [def |-> FALSE, val |-> <<>>]
TagInputs == {NoTags, [def |-> TRUE, val |-> <<"t">>]}
NoFlags == [title |-> FALSE, content |-> FALSE, tags |-> FALSE, summary |-> FALSE]
AllFlags == [title |-> TRUE, content |-> TRUE, tags |-> TRUE, summary |-> TRUE]
NoDiff == [title |-> "", content |-> "", tags |-> "", summary |-> ""]
\* outcome of the three Gemini calls of one request: TRUE = the call returned
AIOutcomes == [sum : BOOLEAN, tag : BOOLEAN, emb : BOOLEAN]
AllOk == [sum |-> TRUE, tag |-> TRUE, emb |-> TRUE]

VARIABLES
    docs,        \* committed Document collection: DocIds -> document | NoDoc
    activities,  \* committed Activity collection, in insertion order
    req,         \* the requests: position, inputs, in-memory document, outcome
    genAI,       \* TRUE iff the module-level Gemini client was constructed
    last         \* outcome of the request that ended most recently

vars == <<docs, activities, req, genAI, last>>

\* ------------------------------------------------------------ small helpers
Role(u) == IF u = "admin" THEN "admin" ELSE "user"

Max(a, b) == IF a >= b THEN a ELSE b

RECURSIVE Dedup(_)
\* Array.from(new Set(xs)): first occurrences, in order
Dedup(xs) ==
    IF xs = <<>> THEN <<>>
    ELSE LET init == Dedup(SubSeq(xs, 1, Len(xs) - 1))
             x == xs[Len(xs)]
         IN IF \E i \in 1..Len(init) : init[i] = x THEN init ELSE Append(init, x)

\* xs.slice(0, n)
Take(xs, n) == SubSeq(xs, 1, IF Len(xs) < n THEN Len(xs) ELSE n)

\* xs.slice(-n)
LastN(xs, n) == SubSeq(xs, Max(1, Len(xs) - n + 1), Len(xs))

Reverse(xs) == [i \in 1..Len(xs) |-> xs[Len(xs) + 1 - i]]

SetOf(xs) == {xs[i] : i \in 1..Len(xs)}

\* ------------------------------------------------------------- Gemini utils
LowerOf(c) ==
    CASE c = "A" -> "a" [] c = "B" -> "b" [] c = "C" -> "c" [] c = "D" -> "d"
      [] c = "E" -> "e" [] c = "F" -> "f" [] c = "G" -> "g" [] c = "H" -> "h"
      [] c = "I" -> "i" [] c = "J" -> "j" [] c = "K" -> "k" [] c = "L" -> "l"
      [] c = "M" -> "m" [] c = "N" -> "n" [] c = "O" -> "o" [] c = "P" -> "p"
      [] c = "Q" -> "q" [] c = "R" -> "r" [] c = "S" -> "s" [] c = "T" -> "t"
      [] c = "U" -> "u" [] c = "V" -> "v" [] c = "W" -> "w" [] c = "X" -> "x"
      [] c = "Y" -> "y" [] c = "Z" -> "z" [] OTHER -> c

WordChars == {"a", "b", "c", "d", "e", "f", "g", "h", "i", "j", "k", "l", "m",
              "n", "o", "p", "q", "r", "s", "t", "u", "v", "w", "x", "y", "z",
              "0", "1", "2", "3", "4", "5", "6", "7", "8", "9"}

RECURSIVE LowerStr(_)
\* toLowerCase
LowerStr(text) ==
    IF text = "" THEN ""
    ELSE LowerOf(SubSeq(text, 1, 1)) \o LowerStr(SubSeq(text, 2, Len(text)))

\* toLowerCase, every character outside [a-z0-9] separates, empty words
\* dropped: a word starts at a word character that follows none and runs to
\* the last word character before a separator or the end
IsWordChar(text, i) == LowerOf(SubSeq(text, i, i)) \in WordChars

WordStarts(text) ==
    {i \in 1..Len(text) : IsWordChar(text, i) /\ (i = 1 \/ ~IsWordChar(text, i - 1))}

WordEnd(text, i) ==
    CHOOSE j \in i..Len(text) :
        /\ \A k \in i..j : IsWordChar(text, k)
        /\ j = Len(text) \/ ~IsWordChar(text, j + 1)

Words(text) ==
    LET starts == WordStarts(text)
        nth(k) == CHOOSE i \in starts : Cardinality({j \in starts : j < i}) = k - 1
    IN [k \in 1..Cardinality(starts) |->
          LowerStr(SubSeq(text, nth(k), WordEnd(text, nth(k))))]

Count(ws, w) == Cardinality({i \in 1..Len(ws) : ws[i] = w})

RECURSIVE SortByFreq(_, _)
\* stable sort of the distinct words by descending frequency
SortByFreq(ws, keys) ==
    IF keys = <<>> THEN <<>>
    ELSE LET best == CHOOSE i \in 1..Len(keys) :
                        /\ \A j \in 1..Len(keys) : Count(ws, keys[j]) <= Count(ws, keys[i])
                        /\ \A j \in 1..(i - 1) : Count(ws, keys[j]) < Count(ws, keys[i])
             rest == [j \in 1..(Len(keys) - 1) |-> IF j < best THEN keys[j] ELSE keys[j + 1]]
         IN <<keys[best]>> \o SortByFreq(ws, rest)

\* a `naive` closure without its sort: the words in order of first occurrence
NaiveTagsUnsorted(text, count) == Take(Dedup(Words(text)), count)

\* the `naive` closure of generateTags
NaiveTags(text, count) == Take(SortByFreq(Words(text), Dedup(Words(text))), count)

\* stands for the one character U+2026 that the fallback appends
Ellipsis == "~"

\* the fallback expression of summarizeText
SummaryFallback(text) ==
    IF Len(text) > SummaryMax THEN SubSeq(text, 1, SummaryCut) \o Ellipsis ELSE text

\* what the Gemini API answers when it answers (values outside the fallbacks)
ApiSummary(text) == "S:" \o text
ApiTags(text) == <<"g">>

summarizeText(text, ok) ==
    IF ~genAI THEN SummaryFallback(text)
    ELSE IF ok THEN ApiSummary(text) ELSE SummaryFallback(text)

generateTags(text, count, ok) ==
    IF ~genAI THEN NaiveTags(text, count)
    ELSE IF ok THEN Take(ApiTags(text), count) ELSE NaiveTags(text, count)

\* embedText has no try/catch: with a client, a failing API call rejects
embedThrows(ok) == genAI /\ ~ok

embedText(text) ==
    IF ~genAI THEN [kind |-> "hash", of |-> text] ELSE [kind |-> "api", of |-> text]

JoinTitleContent(title, content) == title \o "\n" \o content

\* text.charCodeAt(i) for the characters of the texts used here
CharCode(c) ==
    CASE c = "\n" -> 10 [] c = " " -> 32 [] c = "." -> 46
      [] c = "A" -> 65 [] c = "B" -> 66 [] c = "R" -> 82 [] c = "S" -> 83
      [] c = "a" -> 97 [] c = "b" -> 98 [] c = "c" -> 99 [] c = "d" -> 100
      [] c = "e" -> 101 [] c = "f" -> 102 [] c = "g" -> 103 [] c = "h" -> 104
      [] c = "i" -> 105 [] c = "j" -> 106 [] c = "k" -> 107 [] c = "l" -> 108
      [] c = "m" -> 109 [] c = "n" -> 110 [] c = "o" -> 111 [] c = "p" -> 112
      [] c = "q" -> 113 [] c = "r" -> 114 [] c = "s" -> 115 [] c = "t" -> 116
      [] c = "u" -> 117 [] c = "v" -> 118 [] c = "w" -> 119 [] c = "x" -> 120
      [] c = "y" -> 121 [] c = "z" -> 122

EmbeddingSize == 64    \* new Array(64) in the fallback of embedText
HashModulus == 1000    \* ... whose cells are sums of character codes % 1000

RECURSIVE HashCell(_, _, _)
\* cell k (from 0) after the loop has run over the characters from i (from 0) on
HashCell(text, k, i) ==
    IF i >= Len(text) THEN 0
    ELSE (HashCell(text, k, i + EmbeddingSize) + CharCode(SubSeq(text, i + 1, i + 1)))
         % HashModulus

\* the vector a "hash" embedding stands for, in thousandths
HashVector(text) == [k \in 1..EmbeddingSize |-> HashCell(text, k - 1, k - 1)]

\* ----------------------------------------------------------- Document model
Snapshot(doc) ==
    [title |-> doc.title, content |-> doc.content, summary |-> doc.summary, tags |-> doc.tags]

\* new Document({...}): schema defaults currentVersion 1, versions [], isDeleted false
\* a schema whose counter defaults to 0
NewDocumentFromZero(title, content, summary, tags, embedding, user) ==
    [title |-> title, content |-> content, summary |-> summary, tags |-> tags,
     embedding |-> embedding, createdBy |-> user, lastUpdatedBy |-> user,
     currentVersion |-> 0, versions |-> <<>>, isDeleted |-> FALSE]

NewDocument(title, content, summary, tags, embedding, user) ==
    [title |-> title, content |-> content, summary |-> summary, tags |-> tags,
     embedding |-> embedding, createdBy |-> user, lastUpdatedBy |-> user,
     currentVersion |-> 1, versions |-> <<>>, isDeleted |-> FALSE]

\* a pre('save') hook that pushes nothing
PreSaveSkipped(doc) == doc

\* a pre('save') hook whose initial entry leaves the changes at their defaults
PreSaveUnflagged(doc) ==
    [doc EXCEPT !.versions = Append(@,
        [versionNumber |-> 1, title |-> doc.title, content |-> doc.content,
         summary |-> doc.summary, tags |-> doc.tags, editedBy |-> doc.createdBy,
         changes |-> NoFlags, diff |-> NoDiff])]

\* DocumentSchema.pre('save') for a new document: push the initial ledger entry
PreSaveNew(doc) ==
    [doc EXCEPT !.versions = Append(@,
        [versionNumber |-> 1, title |-> doc.title, content |-> doc.content,
         summary |-> doc.summary, tags |-> doc.tags, editedBy |-> doc.createdBy,
         changes |-> AllFlags, diff |-> NoDiff])]

AnyFlag(flags) == flags.title \/ flags.content \/ flags.tags \/ flags.summary

\* createVersion builds newVersion without a `diff` property and then assigns
\* newVersion.diff.<field> for every flagged field when a previous entry
\* exists: that assignment is a TypeError
VersionThrows(doc, flags) == Len(doc.versions) > 0 /\ AnyFlag(flags)

\* slice(0, 10) in place of slice(-10): keeps the oldest entries
LedgerKeepOldest(versions) == Take(versions, MaxVersions)

\* "Keep only the last 10 versions"
LedgerKeep(versions) ==
    IF Len(versions) > MaxVersions THEN LastN(versions, MaxVersions) ELSE versions

\* a createVersion that numbers the entry before it moves the counter
VersionPushedUnbumped(doc, user, flags) ==
    LET newVersion == [versionNumber |-> doc.currentVersion, title |-> doc.title,
                       content |-> doc.content, summary |-> doc.summary,
                       tags |-> doc.tags, editedBy |-> user,
                       changes |-> flags, diff |-> NoDiff]
    IN [doc EXCEPT !.currentVersion = @ + 1,
                   !.lastUpdatedBy = user,
                   !.versions = LedgerKeep(Append(@, newVersion))]

\* createVersion up to (not including) its save(); only reached without a throw
VersionPushed(doc, user, flags) ==
    LET bumped == doc.currentVersion + 1
        newVersion == [versionNumber |-> bumped, title |-> doc.title,
                       content |-> doc.content, summary |-> doc.summary,
                       tags |-> doc.tags, editedBy |-> user,
                       changes |-> flags, diff |-> NoDiff]
    IN [doc EXCEPT !.currentVersion = bumped,
                   !.lastUpdatedBy = user,
                   !.versions = LedgerKeep(Append(@, newVersion))]

\* DocumentSchema.methods.softDelete, up to its save()
\* a delete that also drops the version ledger
softDeleteWipes(doc) == [doc EXCEPT !.isDeleted = TRUE, !.versions = <<>>]

softDelete(doc) == [doc EXCEPT !.isDeleted = TRUE]

\* an ownership test that forgets the admin role
canModifyOwnerOnly(user, doc) == doc.createdBy = user

canModify(user, doc) == Role(user) = "admin" \/ doc.createdBy = user

\* a lookup that falls back to every entry when the number is unknown
FindVersionOrAny(doc, k) ==
    IF \E i \in 1..Len(doc.versions) : doc.versions[i].versionNumber = k
    THEN {i \in 1..Len(doc.versions) : doc.versions[i].versionNumber = k}
    ELSE 1..Len(doc.versions)

FindVersion(doc, k) == {i \in 1..Len(doc.versions) : doc.versions[i].versionNumber = k}

\* ------------------------------------------------------------------ requests
TxnOps == {"create", "update", "delete", "restore"}

IdleReq ==
    [pc |-> "idle", op |-> "none", user |-> "u1", d |-> 1,
     local |-> NoDoc, buf |-> NoDoc, prev |-> NoDoc, target |-> NoDoc,
     changes |-> NoFlags, dirty |-> FALSE, stale |-> FALSE, vstale |-> FALSE,
     k |-> 0, patch |-> "none", status |-> 0, cause |-> "none",
     aiDown |-> FALSE, logFailed |-> FALSE]

\* some Gemini call of the request failed (only a constructed client can fail)
AIDown(ai) == genAI /\ ~(ai.sum /\ ai.tag /\ ai.emb)

\* A request that has answered (or will never answer) keeps its outcome only.
\* cause: "none", or what made the handler leave its normal path:
\*   "db" a failed read or save, "commit" a failed commitTransaction,
\*   "conflict" a write conflict or version error,
\*   "ai" a rejected Gemini call, "throw" an exception of the handler's own code,
\*   "reread" a failed read after the commit (status 0: no response is sent)
Ended(rq, pc, status, cause) ==
    [rq EXCEPT !.pc = pc, !.status = status, !.cause = cause,
               !.local = NoDoc, !.buf = NoDoc, !.prev = NoDoc, !.target = NoDoc,
               !.dirty = FALSE, !.stale = FALSE, !.vstale = FALSE]

Active(rq) == rq.pc \notin {"idle", "done"}

\* what is remembered of an ended request
Outcome(r, rq) ==
    [r |-> r, op |-> rq.op, user |-> rq.user, d |-> rq.d, k |-> rq.k,
     patch |-> rq.patch, status |-> rq.status,
     cause |-> rq.cause, changed |-> AnyFlag(rq.changes),
     content |-> rq.changes.content, aiDown |-> rq.aiDown,
     logFailed |-> rq.logFailed]

NoOutcome == Outcome(0, IdleReq)

\* request r moves to rq; `others` is the table with the effects on the rest
Settle(r, others, rq) ==
    /\ req' = [others EXCEPT ![r] = IF Active(rq) THEN rq ELSE [IdleReq EXCEPT !.pc = "done"]]
    /\ last' = IF Active(rq) THEN last ELSE Outcome(r, rq)

\* slots are used in order, each for one request
CanStart(r) ==
    /\ req[r].pc = "idle"
    /\ IF r = 1 THEN TRUE ELSE req[r - 1].pc # "idle"
    /\ Cardinality({x \in Reqs : Active(req[x])}) < MaxActive

\* ids handed out so far and still referenced somewhere: committed documents,
\* documents of open creates, documents named by an activity record (an
\* ObjectId is never handed out twice)
UsedIds == {d \in DocIds : docs[d] # NoDoc}
           \cup {req[r].d : r \in {x \in Reqs : req[x].op = "create" /\ Active(req[x])}}
           \cup {activities[i].document : i \in 1..Len(activities)}

\* another transaction holds an uncommitted write on document d
HeldByOther(r, d) ==
    \E r2 \in Reqs \ {r} : /\ Active(req[r2]) /\ req[r2].op \in TxnOps
                           /\ req[r2].d = d /\ req[r2].buf # NoDoc

\* a write in a transaction conflicts when the document changed after the
\* transaction's snapshot or another transaction wrote it first
WriteConflict(r) == req[r].stale \/ HeldByOther(r, req[r].d)

\* a write to document d reached the store: every other request that read d
\* earlier now holds an old snapshot
MarkStale(rq, self, d, arrays) ==
    [r \in Reqs |->
        IF r # self /\ Active(rq[r]) /\ rq[r].d = d /\ rq[r].op # "create"
        THEN [rq[r] EXCEPT !.stale = TRUE, !.vstale = @ \/ arrays]
        ELSE rq[r]]

\* order of the awaited steps of each handler
AfterSave(rq) ==
    IF rq.pc = "vsave" THEN (IF rq.op = "update" THEN "log" ELSE "save")
    ELSE IF rq.op \in {"create", "restore"} THEN "log" ELSE "commit"
AfterLog(op) == IF op \in {"update", "delete"} THEN "save" ELSE "commit"

Init ==
    /\ docs = [d \in DocIds |-> NoDoc]
    /\ activities = <<>>
    /\ req = [r \in Reqs |-> IdleReq]
    /\ genAI \in BOOLEAN
    /\ last = NoOutcome

\* ------------------------------------------------------------ createDocument
\* a test that lets the empty string through
FalsyOnlyMissing(x) == x = Undef

\* !title, !content: a missing field or the empty string
Falsy(x) == x \in {Undef, ""}

\* up to doc.save({ session })
\* the id is allotted by `new Document`, which a rejected body never reaches
CreateDocumentBegin(r, u, title, content, tags, ai) ==
    /\ CanStart(r)
    /\ (Falsy(title) \/ Falsy(content)) \/ DocIds \ UsedIds # {}
    /\ LET free == DocIds \ UsedIds
           d == IF free = {} THEN 1 ELSE CHOOSE x \in free : \A y \in free : x <= y
           started == [req[r] EXCEPT !.op = "create", !.user = u, !.d = d,
                                     !.patch = IF title \in {Undef, ""} \/ content \in {Undef, ""}
                                               THEN "invalid" ELSE "valid"]
           text == JoinTitleContent(title, content)
           autoTags == generateTags(text, TagCount, ai.tag)
           doc == NewDocument(title, content, summarizeText(content, ai.sum),
                              IF tags.def THEN tags.val ELSE autoTags,
                              embedText(text), u)
       IN Settle(r, req,
            IF Falsy(title) \/ Falsy(content)
            THEN Ended(started, "done", 400, "none")
            ELSE IF embedThrows(ai.emb)
            THEN Ended([started EXCEPT !.aiDown = TRUE], "done", 500, "ai")
            ELSE [started EXCEPT !.pc = "save", !.local = doc,
                                 !.aiDown = AIDown(ai)])
    /\ UNCHANGED <<docs, activities, genAI>>

\* ------------------------------------------------------------ updateDocument
\* a comparison of the arrays themselves: two distinct arrays always differ
TagsDifferByReference(given, current) == TRUE

\* JSON.stringify(tags) !== JSON.stringify(doc.tags): same strings, same order
TagsDiffer(given, current) == given # current

\* the handler from the field comparison to the test on Object.values(changes)
UpdateApplied(doc, title, content, tags, ai) ==
    LET changes0 == [title |-> title # Undef /\ title # doc.title,
                     content |-> content # Undef /\ content # doc.content,
                     tags |-> tags.def /\ TagsDiffer(tags.val, doc.tags),
                     summary |-> FALSE]
        doc1 == [doc EXCEPT !.title = IF title # Undef THEN title ELSE @,
                            !.content = IF content # Undef THEN content ELSE @,
                            !.tags = IF tags.def THEN tags.val ELSE @]
        recompute == changes0.content \/ changes0.title
        text == JoinTitleContent(doc1.title, doc1.content)
        summary == summarizeText(doc1.content, ai.sum)
        autoTags == generateTags(text, TagCount, ai.tag)
        newTags == Take(Dedup(doc1.tags \o autoTags), MaxTags)
        doc2 == [doc1 EXCEPT !.summary = summary,
                             !.embedding = embedText(text),
                             !.tags = IF tags.def THEN @ ELSE newTags]
        changes2 == [changes0 EXCEPT
                        !.summary = doc1.summary # summary,
                        !.tags = IF tags.def THEN @ ELSE @ \/ newTags # doc1.tags]
    IN [recompute |-> recompute,
        doc |-> IF recompute THEN doc2 ELSE doc1,
        changes |-> IF recompute THEN changes2 ELSE changes0]

\* how the request body relates to the document it meets (kept with the
\* request to tell its outcome apart): "identical" every given field equals
\* the current value, "sameset" as identical except that the given tags are
\* the current tags in another order or multiplicity, "changing" otherwise
PatchKind(doc, title, content, tags) ==
    IF title \in {Undef, doc.title} /\ content \in {Undef, doc.content}
    THEN IF ~tags.def \/ tags.val = doc.tags THEN "identical"
         ELSE IF SetOf(tags.val) = SetOf(doc.tags) THEN "sameset"
         ELSE "changing"
    ELSE "changing"

\* up to the first write: the save inside createVersion when a field changed,
\* doc.save({ session }) otherwise
UpdateDocumentBegin(r, u, d, title, content, tags, ai, fault) ==
    /\ CanStart(r)
    /\ LET started == [req[r] EXCEPT !.op = "update", !.user = u, !.d = d]
           doc == docs[d]
           up == UpdateApplied(doc, title, content, tags, ai)
           flagged == [started EXCEPT !.changes = up.changes,
                                      !.patch = PatchKind(doc, title, content, tags),
                                      !.aiDown = up.recompute /\ AIDown(ai)]
       IN Settle(r, req,
            IF fault THEN Ended(started, "done", 500, "db")
            ELSE IF doc = NoDoc THEN Ended(started, "done", 404, "none")
            ELSE IF ~canModify(u, doc) THEN Ended(started, "done", 403, "none")
            ELSE IF up.recompute /\ embedThrows(ai.emb)
            THEN Ended(flagged, "done", 500, "ai")
            ELSE IF ~AnyFlag(up.changes)
            THEN [flagged EXCEPT !.prev = doc, !.pc = "save",
                                 !.local = [up.doc EXCEPT !.lastUpdatedBy = u]]
            ELSE IF VersionThrows(up.doc, up.changes)
            THEN Ended(flagged, "done", 500, "throw")
            ELSE [flagged EXCEPT !.prev = doc, !.pc = "vsave",
                                 !.local = VersionPushed(up.doc, u, up.changes)])
    /\ UNCHANGED <<docs, activities, genAI>>

\* ------------------------------------------------------------ deleteDocument
\* up to logActivity('deleted', ...)
DeleteDocumentBegin(r, u, d, fault) ==
    /\ CanStart(r)
    /\ LET started == [req[r] EXCEPT !.op = "delete", !.user = u, !.d = d]
           doc == docs[d]
       IN Settle(r, req,
            IF fault THEN Ended(started, "done", 500, "db")
            ELSE IF doc = NoDoc THEN Ended(started, "done", 404, "none")
            ELSE IF ~canModify(u, doc) THEN Ended(started, "done", 403, "none")
            ELSE [started EXCEPT !.prev = doc, !.local = doc, !.pc = "log"])
    /\ UNCHANGED <<docs, activities, genAI>>

\* ------------------------------------------------------------ restoreVersion
\* up to the save inside createVersion
RestoreVersionBegin(r, u, d, k, fault) ==
    /\ CanStart(r)
    /\ LET started == [req[r] EXCEPT !.op = "restore", !.user = u, !.d = d, !.k = k]
           doc == docs[d]
           flagged == [started EXCEPT !.changes = AllFlags]
       IN Settle(r, req,
            IF fault THEN Ended(started, "done", 500, "db")
            ELSE IF doc = NoDoc THEN Ended(started, "done", 404, "none")
            ELSE IF ~canModify(u, doc) THEN Ended(started, "done", 403, "none")
            ELSE IF FindVersion(doc, k) = {} THEN Ended(started, "done", 404, "none")
            ELSE IF VersionThrows(doc, AllFlags)
            THEN Ended(flagged, "done", 500, "throw")
            ELSE [flagged EXCEPT
                    !.prev = doc, !.pc = "vsave",
                    !.local = VersionPushed(doc, u, AllFlags),
                    !.target = doc.versions[CHOOSE i \in FindVersion(doc, k) :
                                              \A j \in FindVersion(doc, k) : i <= j]])
    /\ UNCHANGED <<docs, activities, genAI>>

\* ------------------------------------------------- forceSummarize / forceTags
ForceSummarizeBegin(r, u, d, ok, fault) ==
    /\ CanStart(r)
    /\ LET started == [req[r] EXCEPT !.op = "summarize", !.user = u, !.d = d]
           doc == docs[d]
       IN Settle(r, req,
            IF fault THEN Ended(started, "done", 500, "db")
            ELSE IF doc = NoDoc THEN Ended(started, "done", 404, "none")
            ELSE IF ~canModify(u, doc) THEN Ended(started, "done", 403, "none")
            ELSE [started EXCEPT
                    !.aiDown = genAI /\ ~ok,
                    !.local = [summary |-> summarizeText(doc.content, ok)],
                    !.dirty = doc.summary # summarizeText(doc.content, ok),
                    !.pc = "save"])
    /\ UNCHANGED <<docs, activities, genAI>>

ForceTagsBegin(r, u, d, ok, fault) ==
    /\ CanStart(r)
    /\ LET started == [req[r] EXCEPT !.op = "tags", !.user = u, !.d = d]
           doc == docs[d]
           newTags == generateTags(JoinTitleContent(doc.title, doc.content), TagCount, ok)
           merged == Take(Dedup(doc.tags \o newTags), MaxTags)
       IN Settle(r, req,
            IF fault THEN Ended(started, "done", 500, "db")
            ELSE IF doc = NoDoc THEN Ended(started, "done", 404, "none")
            ELSE IF ~canModify(u, doc) THEN Ended(started, "done", 403, "none")
            ELSE [started EXCEPT
                    !.aiDown = genAI /\ ~ok,
                    !.local = [tags |-> merged],
                    !.dirty = doc.tags # merged,
                    !.pc = "save"])
    /\ UNCHANGED <<docs, activities, genAI>>

\* ------------------------------------------------------- the awaited steps
\* the in-memory document just before the save of each handler
BeforeSave(rq) ==
    IF rq.pc = "vsave" THEN rq.local
    ELSE CASE rq.op = "create" -> PreSaveNew(rq.local)
           [] rq.op = "delete" -> softDelete(rq.local)
           [] rq.op = "restore" -> [rq.local EXCEPT !.title = rq.target.title,
                                                    !.content = rq.target.content,
                                                    !.summary = rq.target.summary,
                                                    !.tags = rq.target.tags,
                                                    !.lastUpdatedBy = rq.user]
           [] OTHER -> rq.local

\* what the store holds for the document from this request's point of view
LastWritten(rq) == IF rq.buf # NoDoc THEN rq.buf ELSE rq.prev

\* a save inside the transaction: doc.save({ session }), softDelete(), and the
\* save that ends createVersion (the document carries the session it was
\* loaded with); a document without modified paths sends nothing
TxnSaveStep(r, fault) ==
    /\ req[r].pc \in {"save", "vsave"}
    /\ req[r].op \in TxnOps
    /\ LET rq == req[r]
           doc == BeforeSave(rq)
           dirty == rq.op = "create" \/ doc # LastWritten(rq)
       IN /\ fault => dirty /\ ~(rq.op # "create" /\ WriteConflict(r))
          /\ Settle(r, req,
            IF ~dirty THEN [rq EXCEPT !.local = doc, !.pc = AfterSave(rq)]
            ELSE IF rq.op # "create" /\ WriteConflict(r)
            THEN Ended(rq, "done", 500, "conflict")
            ELSE IF fault THEN Ended(rq, "done", 500, "db")
            ELSE [rq EXCEPT !.local = doc, !.buf = doc, !.pc = AfterSave(rq)])
    /\ UNCHANGED <<docs, activities, genAI>>

\* doc.save() of forceSummarize / forceTags: no session.  The request keeps of
\* its in-memory document the one path it assigned (`local`) and whether the
\* assignment modified it (`dirty`): save() sends the modified path only, and
\* nothing when no path is modified; an overwritten array also checks the
\* version key, so the save fails when the arrays were rewritten meanwhile
\* a forced recomputation that also counts as a version
ForceWrittenAsVersion(doc, rq) ==
    IF rq.op = "summarize"
    THEN [doc EXCEPT !.summary = rq.local.summary, !.currentVersion = @ + 1]
    ELSE [doc EXCEPT !.tags = rq.local.tags, !.currentVersion = @ + 1]

\* a forced recomputation that also records the caller as last editor
ForceWrittenWithEditor(doc, rq) ==
    IF rq.op = "summarize"
    THEN [doc EXCEPT !.summary = rq.local.summary, !.lastUpdatedBy = rq.user]
    ELSE [doc EXCEPT !.tags = rq.local.tags, !.lastUpdatedBy = rq.user]

\* the one path forceSummarize / forceTags assigns before doc.save()
ForceWritten(doc, rq) ==
    IF rq.op = "summarize"
    THEN [doc EXCEPT !.summary = rq.local.summary]
    ELSE [doc EXCEPT !.tags = rq.local.tags]

PlainSaveStep(r, fault) ==
    /\ req[r].pc = "save"
    /\ req[r].op \in {"summarize", "tags"}
    /\ LET rq == req[r]
           d == rq.d
           versionError == rq.op = "tags" /\ rq.vstale
           written == ForceWritten(docs[d], rq)
       IN /\ rq.dirty => ~HeldByOther(r, d)
          /\ fault => rq.dirty /\ ~versionError
          /\ IF ~rq.dirty
             THEN /\ Settle(r, req, Ended(rq, "done", 200, "none"))
                  /\ docs' = docs
             ELSE IF versionError
             THEN /\ Settle(r, req, Ended(rq, "done", 500, "conflict"))
                  /\ docs' = docs
             ELSE IF fault
             THEN /\ Settle(r, req, Ended(rq, "done", 500, "db"))
                  /\ docs' = docs
             ELSE /\ Settle(r, MarkStale(req, r, d, rq.op = "tags"),
                            Ended(rq, "done", 200, "none"))
                  /\ docs' = [docs EXCEPT ![d] = written]
    /\ UNCHANGED <<activities, genAI>>

\* the record logActivity hands to Activity.create
ActivityOf(r) ==
    LET rq == req[r]
        base == [action |-> "created", document |-> rq.d,
                 documentTitle |-> rq.local.title,
                 versionNumber |-> rq.local.currentVersion,
                 user |-> rq.user, changes |-> NoFlags,
                 previousVersion |-> NoDoc, newVersion |-> NoDoc, by |-> r]
    IN CASE rq.op = "update" ->
                [base EXCEPT !.action = "updated", !.changes = rq.changes,
                             !.previousVersion = Snapshot(rq.prev),
                             !.newVersion = Snapshot(rq.local)]
         [] rq.op = "delete" -> [base EXCEPT !.action = "deleted"]
         [] rq.op = "restore" ->
                [base EXCEPT !.action = "version_created", !.changes = AllFlags,
                             !.previousVersion = Snapshot(rq.local),
                             !.newVersion = Snapshot(rq.target)]
         [] OTHER -> base

\* a logActivity without its try/catch: the failed write ends the request
LogActivityRethrows(r, fault) ==
    /\ req[r].pc = "log"
    /\ activities' = IF fault THEN activities ELSE Append(activities, ActivityOf(r))
    /\ IF fault
       THEN Settle(r, req, Ended([req[r] EXCEPT !.logFailed = TRUE], "done", 500, "log"))
       ELSE /\ req' = [req EXCEPT ![r].pc = AfterLog(req[r].op)]
            /\ last' = last
    /\ UNCHANGED <<docs, genAI>>

\* a logActivity whose 'deleted' record replaces the document's earlier trail
LogActivityCascades(r, fault) ==
    /\ req[r].pc = "log"
    /\ activities' =
          IF fault THEN activities
          ELSE IF req[r].op = "delete"
          THEN Append(SelectSeq(activities, LAMBDA a : a.document # req[r].d),
                      ActivityOf(r))
          ELSE Append(activities, ActivityOf(r))
    /\ req' = [req EXCEPT ![r].pc = AfterLog(req[r].op),
                          ![r].logFailed = fault]
    /\ UNCHANGED <<docs, genAI, last>>

\* await logActivity(...): Activity.create without the session, errors swallowed
LogActivityStep(r, fault) ==
    /\ req[r].pc = "log"
    /\ activities' = IF fault THEN activities ELSE Append(activities, ActivityOf(r))
    /\ req' = [req EXCEPT ![r].pc = AfterLog(req[r].op),
                          ![r].logFailed = fault]
    /\ UNCHANGED <<docs, genAI, last>>

\* await session.commitTransaction() and the response.  createDocument,
\* updateDocument and restoreVersion re-read the document after the commit,
\* still inside the try block: when that read fails the catch block calls
\* abortTransaction on a committed transaction, which rejects before any
\* response is sent.  how: "ok", "commit" (the commit fails), "reread"
CommitStep(r, how) ==
    /\ req[r].pc = "commit"
    /\ how = "reread" => req[r].op # "delete"
    /\ LET rq == req[r]
           wrote == rq.buf # NoDoc
           arrays == wrote /\ rq.op \in {"update", "restore"}
       IN IF how = "commit"
          THEN /\ Settle(r, req, Ended(rq, "done", 500, "commit"))
               /\ docs' = docs
          ELSE /\ docs' = IF wrote THEN [docs EXCEPT ![rq.d] = rq.buf] ELSE docs
               /\ Settle(r, IF wrote THEN MarkStale(req, r, rq.d, arrays) ELSE req,
                         IF how = "reread" THEN Ended(rq, "done", 0, "reread")
                         ELSE Ended(rq, "done", IF rq.op = "create" THEN 201 ELSE 200,
                                    "none"))
    /\ UNCHANGED <<activities, genAI>>

\* ------------------------------------------------------------ read handlers
\* The read handlers run outside any session and answer with what their
\* queries return.  getDocuments, getDocumentById and getDocumentVersions make
\* one read; activityFeed makes two (find and countDocuments), which may see
\* the log at different moments.
\* { $regex: q, $options: 'i' } for a pattern without metacharacters
RegexI(text, q) ==
    \E i \in 1..(Len(text) - Len(q) + 1) :
        LowerStr(SubSeq(text, i, i + Len(q) - 1)) = LowerStr(q)

RECURSIVE SplitFrom(_, _, _, _)
SplitFrom(text, i, cur, acc) ==
    IF i > Len(text) THEN Append(acc, cur)
    ELSE IF SubSeq(text, i, i) = ","
         THEN SplitFrom(text, i + 1, "", Append(acc, cur))
         ELSE SplitFrom(text, i + 1, cur \o SubSeq(text, i, i), acc)

\* tags.split(',')
SplitComma(text) == SplitFrom(text, 1, "", <<>>)

\* req.query of getDocuments; "" stands for an absent parameter
Queries == [mine : {"", "true"}, tag : {"", "t"}, tags : {"", "t,g"}, q : {"", "a"},
            page : {1, 2}]

\* the filter object getDocuments builds
Matches(doc, user, qy) ==
    /\ qy.mine = "true" => doc.createdBy = user
    /\ IF qy.tags # "" THEN SetOf(SplitComma(qy.tags)) \cap SetOf(doc.tags) # {}
       ELSE qy.tag # "" => qy.tag \in SetOf(doc.tags)
    /\ qy.q # "" => \/ RegexI(doc.title, qy.q)
                    \/ RegexI(doc.content, qy.q)
                    \/ \E t \in SetOf(doc.tags) : RegexI(t, qy.q)

\* ids of the documents getDocuments answers with.  The default limit is 20
\* and fewer documents than that exist here, so page 1 holds every match and
\* later pages are empty.
getDocuments(user, qy) ==
    IF qy.page = 1
    THEN {d \in DocIds : docs[d] # NoDoc /\ Matches(docs[d], user, qy)}
    ELSE {}

getDocumentById(d) ==
    IF docs[d] = NoDoc THEN [status |-> 404, body |-> NoDoc]
    ELSE [status |-> 200, body |-> docs[d]]

\* doc.versions.sort((a, b) => b.versionNumber - a.versionNumber)
RECURSIVE InsertDesc(_, _)
InsertDesc(v, sorted) ==
    IF sorted = <<>> THEN <<v>>
    ELSE IF Head(sorted).versionNumber - v.versionNumber > 0
         THEN <<Head(sorted)>> \o InsertDesc(v, Tail(sorted))
         ELSE <<v>> \o sorted

RECURSIVE SortDesc(_)
SortDesc(versions) ==
    IF versions = <<>> THEN <<>>
    ELSE InsertDesc(Head(versions), SortDesc(Tail(versions)))

\* Array.prototype.slice(skip, skip + limit)
Slice(xs, skip, limit) ==
    SubSeq(xs, skip + 1, IF skip + limit < Len(xs) THEN skip + limit ELSE Len(xs))

\* cursor.skip(skip).limit(limit): a limit of 0 is no limit
SkipLimit(xs, skip, limit) ==
    IF limit = 0 THEN SubSeq(xs, skip + 1, Len(xs)) ELSE Slice(xs, skip, limit)

getDocumentVersions(d, skip, limit) ==
    IF docs[d] = NoDoc THEN [status |-> 404, versions |-> <<>>, total |-> 0, hasMore |-> FALSE]
    ELSE LET paginated == Slice(SortDesc(docs[d].versions), skip, limit)
         IN [status |-> 200, versions |-> paginated,
             total |-> Len(docs[d].versions),
             hasMore |-> skip + Len(paginated) < Len(docs[d].versions)]

\* a feed sorted by createdAt ascending
activityFeedOldestFirst(found, counted, skip, limit) ==
    LET page == SkipLimit(found, skip, limit)
    IN [activities |-> page, total |-> Len(counted),
        hasMore |-> skip + Len(page) < Len(counted)]

\* activityFeed where Activity.find() saw the log `found` and
\* Activity.countDocuments() saw the log `counted`; records are created in
\* log order, so sort({ createdAt: -1 }) is the reversed log
activityFeed(found, counted, skip, limit) ==
    LET page == SkipLimit(Reverse(found), skip, limit)
    IN [activities |-> page, total |-> Len(counted),
        hasMore |-> skip + Len(page) < Len(counted)]

\* req.query of activityFeed and getDocumentVersions
Skips == 0..2
Limits == 0..2

\* ------------------------------------------------------------ specification
AIChoices == IF genAI THEN AIOutcomes ELSE {AllOk}
OkChoices == IF genAI THEN BOOLEAN ELSE {TRUE}
CreateUsers == {"u1"}
\* tag lists a caller sends with a create: none, one tag, a repeated tag
CreateTags == TagInputs \cup {[def |-> TRUE, val |-> <<"t", "t">>]}
\* tag lists a caller sends with an update of document d: also the current
\* tags as they are and in reverse order
PatchTags(d) ==
    TagInputs \cup (IF docs[d] = NoDoc THEN {}
                    ELSE {[def |-> TRUE, val |-> docs[d].tags],
                          [def |-> TRUE, val |-> Reverse(docs[d].tags)]})
CreateTitles == {Undef, "", "A"}
CreateContents == {Undef, "", "x"}
PatchTitles == {Undef} \cup Titles
PatchContents == {Undef} \cup Contents
VersionNumbers == 1..2

\* the handler answers before it uses the rest of the request's inputs: the
\* findById fails, finds nothing, or the caller may not modify the document
Rejected(u, d, fault) == fault \/ docs[d] = NoDoc \/ ~canModify(u, docs[d])

\* inputs that cannot influence the request are not enumerated
Only(irrelevant, dflt, all) == IF irrelevant THEN {dflt} ELSE all

\* the slots in which a request can start now
StartSlots == {r \in Reqs : CanStart(r)}

Next ==
    \/ \E r \in StartSlots, u \in CreateUsers, t \in CreateTitles, c \in CreateContents :
         \E g \in Only(Falsy(t) \/ Falsy(c), NoTags, CreateTags),
            ai \in Only(Falsy(t) \/ Falsy(c), AllOk, AIChoices) :
            CreateDocumentBegin(r, u, t, c, g, ai)
    \/ \E r \in StartSlots, u \in Users, d \in DocIds, fault \in BOOLEAN :
         \E t \in Only(Rejected(u, d, fault), Undef, PatchTitles),
            c \in Only(Rejected(u, d, fault), Undef, PatchContents),
            g \in Only(Rejected(u, d, fault), NoTags, PatchTags(d)) :
           \E ai \in Only(Rejected(u, d, fault) \/ (t = Undef /\ c = Undef), AllOk, AIChoices) :
            UpdateDocumentBegin(r, u, d, t, c, g, ai, fault)
    \/ \E r \in StartSlots, u \in Users, d \in DocIds, fault \in BOOLEAN :
            DeleteDocumentBegin(r, u, d, fault)
    \/ \E r \in StartSlots, u \in Users, d \in DocIds, fault \in BOOLEAN :
         \E k \in Only(Rejected(u, d, fault), 1, VersionNumbers) :
            RestoreVersionBegin(r, u, d, k, fault)
    \/ \E r \in StartSlots, u \in Users, d \in DocIds, fault \in BOOLEAN :
         \E ok \in Only(Rejected(u, d, fault), TRUE, OkChoices) :
            ForceSummarizeBegin(r, u, d, ok, fault)
    \/ \E r \in StartSlots, u \in Users, d \in DocIds, fault \in BOOLEAN :
         \E ok \in Only(Rejected(u, d, fault), TRUE, OkChoices) :
            ForceTagsBegin(r, u, d, ok, fault)
    \/ \E r \in Reqs, fault \in BOOLEAN : TxnSaveStep(r, fault)
    \/ \E r \in Reqs, fault \in BOOLEAN : PlainSaveStep(r, fault)
    \/ \E r \in Reqs, fault \in BOOLEAN : LogActivityStep(r, fault)
    \/ \E r \in Reqs, how \in {"ok", "commit", "reread"} : CommitStep(r, how)

Spec == Init /\ [][Next]_vars

\* ---------------------------------------------------- createVersion on its own
\* The controller calls createVersion only with a flagged change, on documents
\* whose ledger holds the initial entry.  The method itself accepts any flags:
\* SpecLedger applies it, call after call, to one saved document (here `docs`
\* holds the document as the method's save() leaves it; a call that throws
\* saves nothing).
MaxCalls == 12       \* calls of createVersion on the document

LedgerUsers == {"u1", "admin"}
FlagSets == [title : BOOLEAN, content : BOOLEAN, tags : BOOLEAN, summary : BOOLEAN]

LedgerInit ==
    /\ \E t \in Titles :
         docs = [d \in DocIds |->
                   IF d = 1
                   THEN PreSaveNew(NewDocument(t, "x", SummaryFallback("x"), <<>>,
                                               [kind |-> "hash", of |-> t], "u1"))
                   ELSE NoDoc]
    /\ activities = <<>>
    /\ req = [r \in Reqs |-> IdleReq]
    /\ genAI = FALSE
    /\ last = NoOutcome

CreateVersionCall(d, user, flags) ==
    /\ docs[d] # NoDoc
    /\ docs[d].currentVersion <= MaxCalls
    /\ docs' = [docs EXCEPT ![d] = IF VersionThrows(@, flags) THEN @
                                   ELSE VersionPushed(@, user, flags)]
    /\ UNCHANGED <<activities, req, genAI, last>>

LedgerNext == \E d \in DocIds, user \in LedgerUsers, flags \in FlagSets :
                 CreateVersionCall(d, user, flags)

SpecLedger == LedgerInit /\ [][LedgerNext]_vars

\* ------------------------------------------- deletes of a deleted document
\* The state after a createDocument and a deleteDocument of u1 have committed
\* (their two records are in the log), and from there deleteDocument requests
\* only: each finds the document, logs 'deleted', saves nothing (isDeleted is
\* already true) and commits.
DeletedInit ==
    /\ docs = [d \in DocIds |->
                 IF d = 1
                 THEN softDelete(PreSaveNew(NewDocument("A", "x", SummaryFallback("x"),
                                                        NaiveTags(JoinTitleContent("A", "x"), TagCount),
                                                        [kind |-> "hash", of |-> JoinTitleContent("A", "x")],
                                                        "u1")))
                 ELSE NoDoc]
    /\ activities =
          LET rec == [action |-> "created", document |-> 1, documentTitle |-> "A",
                      versionNumber |-> 1, user |-> "u1", changes |-> NoFlags,
                      previousVersion |-> NoDoc, newVersion |-> NoDoc, by |-> 0]
          IN <<rec, [rec EXCEPT !.action = "deleted"]>>
    /\ req = [r \in Reqs |-> IdleReq]
    /\ genAI = FALSE
    /\ last = NoOutcome

DeletesNext ==
    \/ \E r \in StartSlots, u \in Users, d \in DocIds, fault \in BOOLEAN :
            DeleteDocumentBegin(r, u, d, fault)
    \/ \E r \in Reqs, fault \in BOOLEAN : LogActivityStep(r, fault)
    \/ \E r \in Reqs, fault \in BOOLEAN : TxnSaveStep(r, fault)
    \/ \E r \in Reqs, how \in {"ok", "commit"} : CommitStep(r, how)

SpecDeletes == DeletedInit /\ [][DeletesNext]_vars

\* ------------------------------------------------------- creates on their own
\* createDocument requests only, on texts that exercise the fallbacks: a short
\* content, and one longer than the 220 characters summarizeText keeps whole
RECURSIVE Repeat(_, _)
Repeat(text, n) == IF n = 0 THEN "" ELSE text \o Repeat(text, n - 1)

LongContent == Repeat("abcdefghi ", 23)

ScenarioTitles == {Undef, "Runbook", "A"}
ScenarioContents == {"", "Step one. Step two.", "b a b", LongContent}

CreatesNext ==
    \/ \E r \in StartSlots, u \in Users, t \in ScenarioTitles, c \in ScenarioContents :
         \E ai \in Only(Falsy(t) \/ Falsy(c), AllOk, AIChoices) :
            CreateDocumentBegin(r, u, t, c, NoTags, ai)
    \/ \E r \in Reqs, fault \in BOOLEAN : TxnSaveStep(r, fault)
    \/ \E r \in Reqs, fault \in BOOLEAN : LogActivityStep(r, fault)
    \/ \E r \in Reqs, how \in {"ok", "commit", "reread"} : CommitStep(r, how)

SpecCreates == Init /\ [][CreatesNext]_vars

\* ------------------------------------------------------------------ properties
Fields == {"title", "content", "tags", "summary"}

\* C1: every authorized updateDocument whose patch changes a field (and that
\* meets no database, AI or conflict failure) succeeds, raises currentVersion
\* by exactly 1 and appends exactly one ledger entry, whose diff is non-empty
\* for each flagged field and empty for each unflagged one.
C1_UpdateBumpsVersion ==
    [][(/\ last' # last
        /\ last'.op = "update"
        /\ last'.changed
        /\ last'.cause \notin {"db", "commit", "ai", "conflict", "reread"})
       => LET before == docs[last'.d]
              after == docs'[last'.d]
              e == after.versions[Len(after.versions)]
          IN /\ last'.status = 200
             /\ after.currentVersion = before.currentVersion + 1
             /\ after.versions = LedgerKeep(Append(before.versions, e))
             /\ e.versionNumber = after.currentVersion
             /\ \A f \in Fields : e.changes[f] <=> e.diff[f] # ""]_vars

\* C2 as stated: a successful createDocument leaves the document at
\* currentVersion 1 with exactly one ledger entry (versionNumber 1) and exactly
\* one 'created' activity record referencing it.
C2_CreateLogsExactlyOnce ==
    [][(last' # last /\ last'.op = "create" /\ last'.status = 201)
       => LET doc == docs'[last'.d]
          IN /\ doc # NoDoc
             /\ doc.currentVersion = 1
             /\ Len(doc.versions) = 1
             /\ doc.versions[1].versionNumber = 1
             /\ Cardinality({i \in 1..Len(activities') :
                               /\ activities'[i].action = "created"
                               /\ activities'[i].document = last'.d}) = 1]_vars

\* C2 amended: a successful createDocument leaves the document at
\* currentVersion 1 with exactly one ledger entry (versionNumber 1); the log
\* holds exactly one 'created' record referencing it when the activity write
\* succeeded and none when that write failed.
C2_CreateYieldsVersionOne ==
    [][(last' # last /\ last'.op = "create" /\ last'.status = 201)
       => LET doc == docs'[last'.d]
          IN /\ docs[last'.d] = NoDoc
             /\ doc # NoDoc
             /\ doc.currentVersion = 1
             /\ Len(doc.versions) = 1
             /\ doc.versions[1].versionNumber = 1
             /\ Snapshot(doc.versions[1]) = Snapshot(doc)
             /\ Cardinality({i \in 1..Len(activities') :
                               /\ activities'[i].action = "created"
                               /\ activities'[i].document = last'.d})
                  = IF last'.logFailed THEN 0 ELSE 1]_vars

\* a create answered 201 whose 'created' record is in the log
C2_Witness ==
    /\ last.op = "create" /\ last.status = 201 /\ ~last.logFailed
    /\ docs[last.d] # NoDoc
    /\ \E i \in 1..Len(activities) : activities[i].by = last.r

\* C3: a create, update, delete or restore that fails before it reaches
\* commitTransaction persists none of its writes: the documents are as before
\* and the activity log holds no record written by that request.
C3_FailureRollsBackAll ==
    [][(/\ last' # last
        /\ last'.op \in TxnOps
        /\ last'.status = 500
        /\ last'.cause # "commit")
       => /\ docs' = docs
          /\ \A i \in 1..Len(activities') : activities'[i].by # last'.r]_vars

\* C4: a field-changing updateDocument / restoreVersion (that meets no database
\* or AI failure) either commits with the next version number, its ledger
\* entry present and no version number used twice, or is aborted with a
\* conflict and leaves no write.
C4_MutationsSerialized ==
    [][(/\ last' # last
        /\ last'.op \in {"update", "restore"}
        /\ last'.changed
        /\ last'.cause \notin {"db", "commit", "ai", "reread"})
       => LET before == docs[last'.d]
              after == docs'[last'.d]
              n == Len(after.versions)
          IN \/ /\ last'.status = 200
                /\ after.currentVersion > before.currentVersion
                /\ after.versions[n].versionNumber = after.currentVersion
                /\ \A i, j \in 1..n :
                     i # j => after.versions[i].versionNumber # after.versions[j].versionNumber
             \/ /\ last'.cause = "conflict"
                /\ docs' = docs]_vars

C7_RestoreAddsTwoEntries ==
    [][(/\ last' # last
        /\ last'.op = "restore"
        /\ last'.changed
        /\ last'.cause \notin {"db", "commit", "conflict", "reread"})
       => LET before == docs[last'.d]
              after == docs'[last'.d]
              n == Len(after.versions)
          IN /\ last'.status = 200
             /\ after.currentVersion = before.currentVersion + 2
             /\ n = IF Len(before.versions) + 2 > MaxVersions THEN MaxVersions
                    ELSE Len(before.versions) + 2
             /\ after.versions[n - 1].versionNumber = before.currentVersion + 1
             /\ Snapshot(after.versions[n - 1]) = Snapshot(before)
             /\ after.versions[n].versionNumber = before.currentVersion + 2
             /\ Snapshot(after.versions[n]) = Snapshot(after)]_vars

\* C8: an authorized restoreVersion(docId, k) of a version k in the ledger
\* (that meets no database failure or conflict) succeeds; afterwards title,
\* content, summary and tags equal the snapshot of entry k, and some ledger
\* entry holds the document's snapshot from just before the restore.
C8_RestoreSetsSnapshot ==
    [][(/\ last' # last
        /\ last'.op = "restore"
        /\ last'.changed
        /\ last'.cause \notin {"db", "commit", "conflict", "reread"})
       => LET before == docs[last'.d]
              after == docs'[last'.d]
          IN /\ last'.status = 200
             /\ \E i \in FindVersion(before, last'.k) :
                  Snapshot(after) = Snapshot(before.versions[i])
             /\ \E j \in 1..Len(after.versions) :
                  /\ after.versions[j].versionNumber > before.currentVersion
                  /\ Snapshot(after.versions[j]) = Snapshot(before)]_vars

\* C9: a createDocument with title and content, or an updateDocument that
\* changes title or content, in which a Gemini call fails or no client is
\* configured (and that meets no database failure, conflict or exception of
\* the ledger code) commits and is answered with success.
C9_AIFailureNeverSurfaces ==
    [][(/\ last' # last
        /\ last'.op \in {"create", "update"}
        /\ last'.aiDown \/ ~genAI
        /\ last'.status \notin {400, 403, 404}
        /\ last'.cause \notin {"db", "commit", "conflict", "reread", "throw"})
       => /\ last'.status \in {200, 201}
          /\ docs'[last'.d] # NoDoc]_vars

\* C10: a create, update, delete or restore whose activity write failed is not
\* ended by that failure: unless a database failure or conflict ends it, it
\* commits its document write and is answered with success, and the log holds
\* no record of it.
C10_LogFailureDoesNotRollBack ==
    [][(last' # last /\ last'.op \in TxnOps /\ last'.logFailed)
       => /\ last'.cause \in {"none", "db", "commit", "conflict", "reread"}
          /\ \A i \in 1..Len(activities') : activities'[i].by # last'.r
          /\ last'.cause = "none"
               => /\ last'.status = (IF last'.op = "create" THEN 201 ELSE 200)
                  /\ docs'[last'.d] # NoDoc
                  /\ last'.op = "create" => docs[last'.d] = NoDoc
                  /\ last'.op = "delete" => docs'[last'.d].isDeleted]_vars

\* a delete answered 200 although its 'deleted' record could not be written
C10_Witness ==
    /\ last.op = "delete" /\ last.status = 200 /\ last.logFailed
    /\ docs[last.d] # NoDoc /\ docs[last.d].isDeleted
    /\ \A i \in 1..Len(activities) : activities[i].action # "deleted"

\* C11: updateDocument, deleteDocument, restoreVersion, forceSummarize and
\* forceTags (whose findById does not fail) answer 404 for an unknown document
\* and 403 for a caller who is neither its creator nor an admin, and in both
\* cases leave documents and activity log as they are; the creator and an
\* admin are never answered 403.
C11_OnlyOwnerOrAdmin ==
    [][(/\ last' # last
        /\ last'.op \in {"update", "delete", "restore", "summarize", "tags"}
        /\ ~(last'.status = 500 /\ last'.cause = "db"))
       => LET doc == docs[last'.d]
              allowed == doc # NoDoc /\ (last'.user = "admin" \/ doc.createdBy = last'.user)
          IN /\ doc = NoDoc
                  => last'.status = 404 /\ docs' = docs /\ activities' = activities
             /\ (doc # NoDoc /\ ~allowed)
                  => last'.status = 403 /\ docs' = docs /\ activities' = activities
             /\ allowed => last'.status # 403]_vars

\* forceTags by a user who is neither creator nor admin was answered 403
C11_Witness ==
    /\ last.op = "tags" /\ last.status = 403 /\ last.user = "u2"
    /\ docs[last.d] # NoDoc /\ docs[last.d].createdBy = "u1"

\* C12: a restoreVersion by the creator or an admin (whose findById does not
\* fail) with a version number that no ledger entry carries is answered 404 and
\* changes nothing: documents and activity log are as before.
C12_RestoreUnknownVersion ==
    [][(/\ last' # last
        /\ last'.op = "restore"
        /\ ~(last'.status = 500 /\ last'.cause = "db")
        /\ docs[last'.d] # NoDoc
        /\ last'.user = "admin" \/ docs[last'.d].createdBy = last'.user
        /\ \A i \in 1..Len(docs[last'.d].versions) :
             docs[last'.d].versions[i].versionNumber # last'.k)
       => /\ last'.status = 404
          /\ docs' = docs
          /\ activities' = activities]_vars

\* the creator asked for version 2 of a document whose ledger holds version 1
C12_Witness ==
    /\ last.op = "restore" /\ last.status = 404 /\ last.k = 2
    /\ docs[last.d] # NoDoc /\ docs[last.d].createdBy = last.user
    /\ Len(docs[last.d].versions) = 1

\* C13: a document whose deletion committed is omitted by every default read:
\* getDocumentById answers 404 for it and getDocuments, with any filter, does
\* not list it.
C13_DeletedOmittedFromReads ==
    \A d \in DocIds :
        (docs[d] # NoDoc /\ docs[d].isDeleted)
        => /\ getDocumentById(d).status = 404
           /\ \A u \in Users, qy \in Queries : d \notin getDocuments(u, qy)

\* C14: a successful deleteDocument sets isDeleted and changes nothing else of
\* the document (row, title, content, summary, tags, currentVersion and ledger
\* as before), and exactly one 'deleted' record carrying the document's title
\* and version number at the time of deletion is appended.
C14_DeleteLogsExactlyOnce ==
    [][(last' # last /\ last'.op = "delete" /\ last'.status = 200)
       => LET d == last'.d
              mine == {i \in 1..Len(activities') : activities'[i].by = last'.r}
          IN /\ docs[d] # NoDoc
             /\ docs'[d] = [docs[d] EXCEPT !.isDeleted = TRUE]
             /\ Cardinality(mine) = 1
             /\ \A i \in mine : /\ activities'[i].action = "deleted"
                                /\ activities'[i].document = d
                                /\ activities'[i].documentTitle = docs[d].title
                                /\ activities'[i].versionNumber = docs[d].currentVersion]_vars

\* C14 amended: a successful deleteDocument sets isDeleted and changes nothing
\* else of the document or of any other document; the log holds one 'deleted'
\* record of the request, carrying the document's title and version number at
\* the time of deletion, when the activity write succeeded, and none when that
\* write failed.
C14_DeleteSetsFlagOnly ==
    [][(last' # last /\ last'.op = "delete" /\ last'.status = 200)
       => LET d == last'.d
              mine == {i \in 1..Len(activities') : activities'[i].by = last'.r}
          IN /\ docs[d] # NoDoc
             /\ docs' = [docs EXCEPT ![d] = [docs[d] EXCEPT !.isDeleted = TRUE]]
             /\ Cardinality(mine) = (IF last'.logFailed THEN 0 ELSE 1)
             /\ \A i \in mine : /\ activities'[i].action = "deleted"
                                /\ activities'[i].document = d
                                /\ activities'[i].documentTitle = docs[d].title
                                /\ activities'[i].versionNumber = docs[d].currentVersion]_vars

\* a delete answered 200 whose 'deleted' record is in the log, the document
\* still stored with its ledger
C14_Witness ==
    /\ last.op = "delete" /\ last.status = 200 /\ ~last.logFailed
    /\ docs[last.d] # NoDoc /\ docs[last.d].isDeleted
    /\ Len(docs[last.d].versions) = 1
    /\ \E i \in 1..Len(activities) :
          activities[i].by = last.r /\ activities[i].action = "deleted"

\* C15: the activity log is append-only: every step keeps each record that
\* was in the log, at its place and unmodified, so a record present in one
\* state is present in every later state; in particular a deleteDocument
\* removes none of the records that reference the document.
C15_ActivityAppendOnly ==
    [][/\ Len(activities') >= Len(activities)
       /\ \A i \in 1..Len(activities) : activities'[i] = activities[i]]_vars

\* a soft-deleted document whose 'created' and 'deleted' records are both in
\* the log
C15_Witness ==
    \E d \in DocIds :
        /\ docs[d] # NoDoc /\ docs[d].isDeleted
        /\ \E i, j \in 1..Len(activities) :
              /\ i < j
              /\ activities[i].document = d /\ activities[i].action = "created"
              /\ activities[j].document = d /\ activities[j].action = "deleted"

\* C16: an updateDocument whose patch leaves every field equal to its current
\* value flags no change, is never ended by the handler's own code, appends no
\* ledger entry, writes no activity record and leaves currentVersion and every
\* content field as they were (only lastUpdatedBy may be set); unless a
\* database failure ends it, it is answered 200.  The document it leaves makes
\* the same patch a no-op again, so repeating it has the effect of doing it
\* once.
C16_NoOpUpdateIdempotent ==
    [][(last' # last /\ last'.op = "update" /\ last'.patch = "identical")
       => LET d == last'.d
          IN /\ ~last'.changed
             /\ last'.cause \in {"none", "db", "commit", "conflict", "reread"}
             /\ last'.cause = "none" => last'.status = 200
             /\ docs[d] # NoDoc /\ docs'[d] # NoDoc
             /\ docs'[d].versions = docs[d].versions
             /\ docs'[d].currentVersion = docs[d].currentVersion
             /\ [docs'[d] EXCEPT !.lastUpdatedBy = last'.user]
                  = [docs[d] EXCEPT !.lastUpdatedBy = last'.user]
             /\ last'.status = 200 => docs'[d].lastUpdatedBy \in {last'.user, docs[d].lastUpdatedBy}
             /\ activities' = activities
             /\ \A i \in 1..Len(activities') : activities'[i].by # last'.r]_vars

\* an update with an identical payload was answered 200: the admin is now the
\* last editor and the document is still at version 1 with one ledger entry
\* and no 'updated' record
C16_Witness ==
    /\ last.op = "update" /\ last.patch = "identical" /\ last.status = 200
    /\ docs[last.d] # NoDoc
    /\ docs[last.d].lastUpdatedBy = "admin" /\ last.user = "admin"
    /\ docs[last.d].currentVersion = 1 /\ Len(docs[last.d].versions) = 1
    /\ \A i \in 1..Len(activities) : activities[i].action # "updated"

\* C17: createDocument followed by 11 content-changing updates leaves a ledger
\* of exactly 10 entries whose lowest versionNumber is 2, and all 11 'updated'
\* records.  Update by update: each content-changing update that meets no
\* database, AI or logging failure is answered 200, moves currentVersion up by
\* one, leaves the ledger one entry longer but never longer than 10, writes
\* its 'updated' record, and the eleventh (reaching version 12) leaves 2 as
\* the lowest retained versionNumber.
C17_ElevenUpdatesKeepTen ==
    [][(/\ last' # last /\ last'.op = "update" /\ last'.content
        /\ last'.cause \notin {"db", "commit", "conflict", "ai", "reread"}
        /\ ~last'.logFailed)
       => LET d == last'.d
              old == docs[d]
              new == docs'[d]
          IN /\ last'.status = 200
             /\ new.currentVersion = old.currentVersion + 1
             /\ Len(new.versions) = (IF Len(old.versions) < MaxVersions
                                     THEN Len(old.versions) + 1 ELSE MaxVersions)
             /\ new.currentVersion = MaxVersions + 2 => new.versions[1].versionNumber = 2
             /\ \E i \in 1..Len(activities') :
                   /\ activities'[i].by = last'.r
                   /\ activities'[i].action = "updated"
                   /\ activities'[i].document = d]_vars

\* C18: in updateDocument the tags count as changed only if they differ from
\* the document's tags as a set: an update whose tags are the current tags in
\* another order, title and content unchanged, flags no change and (unless a
\* database failure ends it) is answered 200 as a no-op that appends no ledger
\* entry and no activity record.
C18_TagsComparedAsSet ==
    [][(/\ last' # last /\ last'.op = "update" /\ last'.patch = "sameset"
        /\ last'.cause \notin {"db", "commit", "conflict", "reread"})
       => LET d == last'.d
          IN /\ ~last'.changed
             /\ last'.status = 200
             /\ docs'[d].versions = docs[d].versions
             /\ docs'[d].currentVersion = docs[d].currentVersion
             /\ \A i \in 1..Len(activities') : activities'[i].by # last'.r]_vars

\* C19: in every reachable state every stored document's tags contain no
\* duplicates and at most 10 entries, whatever tag lists the callers supplied.
C19_TagsAreCappedSet ==
    \A d \in DocIds :
        docs[d] # NoDoc
        => /\ Len(docs[d].tags) <= MaxTags
           /\ \A i, j \in 1..Len(docs[d].tags) :
                 docs[d].tags[i] = docs[d].tags[j] => i = j

\* C20: createDocument stores as tags the deduplicated union of the
\* caller-supplied tags and the AI-suggested tags, caller-supplied first,
\* truncated to 10 entries: the tags of a document just created are such a
\* merge of one of the lists a caller can supply (the empty list when none is
\* supplied) with the tags generated for its title and content.
C20_CreateMergesTags ==
    [][(last' # last /\ last'.op = "create" /\ last'.status = 201)
       => LET doc == docs'[last'.d]
              text == JoinTitleContent(doc.title, doc.content)
          IN \E given \in CreateTags, ok \in OkChoices :
                doc.tags = Take(Dedup((IF given.def THEN given.val ELSE <<>>)
                                      \o generateTags(text, TagCount, ok)),
                                MaxTags)]_vars

\* C21: forceSummarize changes only the summary of its document and forceTags
\* only the tags: whatever the outcome of the request, every other field of
\* the document (ledger entries and currentVersion included) and every other
\* document is as before, and no activity record is written.
C21_ForceChangesOneField ==
    [][(last' # last /\ last'.op \in {"summarize", "tags"})
       => LET d == last'.d
          IN /\ activities' = activities
             /\ \A i \in 1..Len(activities') : activities'[i].by # last'.r
             /\ \A e \in DocIds \ {d} : docs'[e] = docs[e]
             /\ docs[d] = NoDoc => docs'[d] = NoDoc
             /\ docs[d] # NoDoc
                  => /\ docs'[d] # NoDoc
                     /\ docs'[d].versions = docs[d].versions
                     /\ docs'[d].currentVersion = docs[d].currentVersion
                     /\ last'.op = "summarize"
                          => docs'[d] = [docs[d] EXCEPT !.summary = docs'[d].summary]
                     /\ last'.op = "tags"
                          => docs'[d] = [docs[d] EXCEPT !.tags = docs'[d].tags]
                     /\ last'.status # 200 => docs'[d] = docs[d]]_vars

\* a forceTags by the admin committed new tags on u1's document: the ledger
\* still is the single entry of the creation, with the old tags, and the log
\* holds no record of the request
C21_Witness ==
    /\ last.op = "tags" /\ last.status = 200 /\ last.user = "admin"
    /\ docs[last.d] # NoDoc
    /\ docs[last.d].currentVersion = 1 /\ Len(docs[last.d].versions) = 1
    /\ docs[last.d].tags # docs[last.d].versions[1].tags
    /\ docs[last.d].lastUpdatedBy = "u1"
    /\ \A i \in 1..Len(activities) : activities[i].by # last.r

\* C22: no write of an in-flight create, update, delete or restore is visible
\* to a reader before the commit: while the request is open, activityFeed
\* lists no record written by it, and getDocumentById and getDocumentVersions
\* do not answer with the document it has written in its transaction.
C22_NothingVisibleBeforeCommit ==
    \A r \in Reqs :
        (Active(req[r]) /\ req[r].op \in TxnOps)
        => /\ LET feed == activityFeed(activities, activities, 0, 0)
              IN \A i \in 1..Len(feed.activities) : feed.activities[i].by # r
           /\ (req[r].buf # NoDoc /\ req[r].buf # req[r].prev)
                => /\ getDocumentById(req[r].d).body # req[r].buf
                   /\ getDocumentVersions(req[r].d, 0, MaxVersions).versions
                        # SortDesc(req[r].buf.versions)
                      \/ req[r].buf.versions = req[r].prev.versions

\* C23: for one document the activity records of its committed mutations are
\* in the log in the order in which the mutations committed, and the version
\* numbers they carry do not go down in that order.  For two mutations of the
\* same document that commit one right after the other: the record of the
\* first is in the log before the record of the second, with a version number
\* that is not greater.
C23_RecordsInCommitOrder ==
    [][(/\ last' # last
        /\ last'.op \in TxnOps /\ last'.status \in {200, 201}
        /\ last.op \in TxnOps /\ last.status \in {200, 201}
        /\ last.d = last'.d)
       => \A i, j \in 1..Len(activities') :
             (activities'[i].by = last.r /\ activities'[j].by = last'.r)
             => /\ i < j
                /\ activities'[i].versionNumber <= activities'[j].versionNumber]_vars

\* C24: an authorized restoreVersion of a version in the ledger (that meets no
\* database or logging failure) succeeds and its 'version_created' record
\* carries both snapshots: previousVersion is the document's title, content,
\* summary and tags from just before the restore, newVersion is the snapshot
\* of the target version.
C24_RestoreRecordHasBothSnapshots ==
    [][(/\ last' # last
        /\ last'.op = "restore"
        /\ last'.changed
        /\ ~last'.logFailed
        /\ last'.cause \notin {"db", "commit", "conflict", "reread"})
       => LET before == docs[last'.d]
          IN /\ last'.status = 200
             /\ \E i \in 1..Len(activities') :
                   /\ activities'[i].by = last'.r
                   /\ activities'[i].action = "version_created"
                   /\ activities'[i].previousVersion = Snapshot(before)
                   /\ \E n \in FindVersion(before, last'.k) :
                         activities'[i].newVersion = Snapshot(before.versions[n])]_vars

\* in every ledger entry a field's diff is populated only if the entry's flag
\* for the field is true, and the entry numbered 1 has all four flags and an
\* empty diff
DiffsFollowFlags ==
    \A d \in DocIds :
        docs[d] # NoDoc
        => \A i \in 1..Len(docs[d].versions) :
              LET entry == docs[d].versions[i]
              IN /\ \A f \in Fields : entry.diff[f] # "" => entry.changes[f]
                 /\ entry.versionNumber = 1
                      => entry.changes = AllFlags /\ entry.diff = NoDiff

\* the entry numbered 1 is stored by the save that stores the document, and
\* by no later one
VersionOneComesWithDocument ==
    \A d \in DocIds :
        /\ (docs[d] = NoDoc /\ docs'[d] # NoDoc)
             => /\ Len(docs'[d].versions) = 1
                /\ docs'[d].versions[1].versionNumber = 1
                /\ Snapshot(docs'[d].versions[1]) = Snapshot(docs'[d])
        /\ (docs[d] # NoDoc /\ docs'[d] # NoDoc)
             => \A i \in 1..Len(docs'[d].versions) :
                   docs'[d].versions[i].versionNumber = 1
                   => \E j \in 1..Len(docs[d].versions) :
                         docs[d].versions[j] = docs'[d].versions[i]

\* C25: in every ledger entry of every reachable state the diff of a field is
\* populated only if the entry's changed-flag for that field is true and is
\* empty otherwise; the entry with versionNumber 1 is created in the same save
\* as the document, with all four changed-flags true and an empty diff.
C25_DiffOnlyForFlaggedFields ==
    []DiffsFollowFlags /\ [][VersionOneComesWithDocument]_vars

\* a stored document that was changed after its creation (new tags) and whose
\* ledger holds the entry numbered 1, all flags true, no diff
C25_Witness ==
    \E d \in DocIds :
        /\ docs[d] # NoDoc
        /\ Len(docs[d].versions) = 1
        /\ docs[d].versions[1].versionNumber = 1
        /\ docs[d].versions[1].changes = AllFlags
        /\ docs[d].versions[1].diff = NoDiff
        /\ docs[d].tags # docs[d].versions[1].tags

\* C26: a createDocument whose title or content is missing or empty is
\* answered 400, the validation error, and not the generic 500; it stores no
\* document, no ledger entry and no activity record and leaves no transaction
\* open.  A create with title and content is never answered 400.
C26_CreateValidates ==
    [][(last' # last /\ last'.op = "create")
       => /\ last'.patch = "invalid" <=> last'.status = 400
          /\ last'.patch = "invalid"
               => /\ last'.cause = "none"
                  /\ docs' = docs
                  /\ activities' = activities
                  /\ \A i \in 1..Len(activities') : activities'[i].by # last'.r
                  /\ req'[last'.r].buf = NoDoc /\ ~Active(req'[last'.r])]_vars

\* a create without content was answered 400 while the store holds a document
\* of an earlier create, and nothing of the rejected request is in the log
C26_Witness ==
    /\ last.op = "create" /\ last.status = 400 /\ last.patch = "invalid"
    /\ \E d \in DocIds : docs[d] # NoDoc
    /\ \A i \in 1..Len(activities) : activities[i].by # last.r

\* positions skip .. skip + limit - 1 of the log read newest first
FeedPage(skip, limit) ==
    LET n == Len(activities)
        size == IF n - skip < 0 THEN 0 ELSE IF n - skip < limit THEN n - skip ELSE limit
    IN [i \in 1..size |-> activities[n - skip - i + 1]]

TopWords(tags, text, count) ==
    LET ws == Words(text)
    IN /\ Len(tags) <= count
       /\ Len(tags) = count \/ SetOf(tags) = SetOf(ws)
       /\ \A i \in 1..Len(tags) : tags[i] \in SetOf(ws)
       /\ \A i, j \in 1..Len(tags) : i < j => /\ tags[i] # tags[j]
                                              /\ Count(ws, tags[i]) >= Count(ws, tags[j])
       /\ \A w \in SetOf(ws) \ SetOf(tags) :
             \A i \in 1..Len(tags) : Count(ws, w) <= Count(ws, tags[i])

\* C28: without an AI client a createDocument with title and content (that
\* meets no database failure) is answered 201 and stores as summary the
\* content itself when it has at most 220 characters and else its first 200
\* characters plus an ellipsis, as tags the most frequent lower-cased words of
\* title and content (at most 6, most frequent first), the hash embedding of
\* 64 cells, and a ledger of one entry; for title "Runbook" and content
\* "Step one. Step two." the summary is the content and the tags are step,
\* runbook, one, two.
C28_FallbackCreateScenario ==
    [][(/\ last' # last /\ last'.op = "create" /\ last'.patch = "valid"
        /\ ~genAI
        /\ last'.cause \notin {"db", "commit", "reread"})
       => LET doc == docs'[last'.d]
              text == JoinTitleContent(doc.title, doc.content)
          IN /\ last'.status = 201
             /\ doc # NoDoc
             /\ doc.summary = (IF Len(doc.content) <= SummaryMax THEN doc.content
                               ELSE SubSeq(doc.content, 1, SummaryCut) \o Ellipsis)
             /\ TopWords(doc.tags, text, TagCount)
             /\ doc.embedding.kind = "hash" /\ doc.embedding.of = text
             /\ Len(HashVector(doc.embedding.of)) = EmbeddingSize
             /\ Len(doc.versions) = 1
             /\ (doc.title = "Runbook" /\ doc.content = "Step one. Step two.")
                  => /\ doc.summary = "Step one. Step two."
                     /\ doc.tags = <<"step", "runbook", "one", "two">>
                     /\ HashVector(doc.embedding.of)[1] = 82
                     /\ HashVector(doc.embedding.of)[8] = 10
                     /\ \A k \in 28..EmbeddingSize : HashVector(doc.embedding.of)[k] = 0]_vars

\* the scenario's document is stored, created without an AI client
C28_Witness ==
    /\ ~genAI
    /\ last.op = "create" /\ last.status = 201
    /\ docs[last.d] # NoDoc
    /\ docs[last.d].title = "Runbook"
    /\ docs[last.d].content = "Step one. Step two."
    /\ docs[last.d].tags = <<"step", "runbook", "one", "two">>
    /\ Len(docs[last.d].versions) = 1

\* C29: an updateDocument that changes the content (and meets no database or
\* AI failure) recomputes the AI fields from the new title and content before
\* it builds the ledger entry: it is answered 200, the entry it appends holds
\* the final summary and tags of the document, computed from the new content,
\* and carries a diff for the changed content.
C29_EntryHoldsPostAIState ==
    [][(/\ last' # last /\ last'.op = "update" /\ last'.content
        /\ last'.cause \notin {"db", "commit", "conflict", "ai", "reread"})
       => LET old == docs[last'.d]
              new == docs'[last'.d]
              entry == new.versions[Len(new.versions)]
          IN /\ last'.status = 200
             /\ new.content # old.content
             /\ new.summary \in {summarizeText(new.content, ok) : ok \in BOOLEAN}
             /\ entry.versionNumber = old.currentVersion + 1
             /\ Snapshot(entry) = Snapshot(new)
             /\ entry.changes.content /\ entry.diff.content # ""]_vars

\* the versionNumbers of a ledger increase strictly from head to tail and none
\* is above the document's counter
LedgerIncreasing ==
    \A d \in DocIds :
        docs[d] # NoDoc
        => LET vs == docs[d].versions
           IN /\ \A i, j \in 1..Len(vs) : i < j => vs[i].versionNumber < vs[j].versionNumber
              /\ \A i \in 1..Len(vs) : vs[i].versionNumber <= docs[d].currentVersion

\* a step that moves a document's counter appends the entry numbered with the
\* new value of the counter; any other step leaves the ledger as it is
EntryNumberedByCounter ==
    \A d \in DocIds :
        (docs[d] # NoDoc /\ docs'[d] # NoDoc)
        => IF docs'[d].currentVersion # docs[d].currentVersion
           THEN /\ Len(docs'[d].versions) >= 1
                /\ docs'[d].versions[Len(docs'[d].versions)].versionNumber
                     = docs'[d].currentVersion
                /\ \A i \in 1..(Len(docs'[d].versions) - 1) :
                      \E j \in 1..Len(docs[d].versions) :
                         docs[d].versions[j] = docs'[d].versions[i]
           ELSE docs'[d].versions = docs[d].versions

Newest(doc) == doc.versions[Len(doc.versions)]

\* C31: after every committed createDocument, updateDocument or
\* restoreVersion the newest ledger entry's versionNumber equals the
\* document's currentVersion and its snapshot equals the document's current
\* title, content, summary and tags.
C31_NewestEntryIsCurrentState ==
    [][(/\ last' # last /\ last'.op \in {"create", "update", "restore"}
        /\ last'.status \in {200, 201} \/ last'.cause = "reread")
       => LET doc == docs'[last'.d]
          IN /\ doc # NoDoc /\ Len(doc.versions) >= 1
             /\ Newest(doc).versionNumber = doc.currentVersion
             /\ Snapshot(Newest(doc)) = Snapshot(doc)]_vars

\* C31 amended: after every committed createDocument, updateDocument or
\* restoreVersion the newest ledger entry's versionNumber equals the
\* document's currentVersion and its title and content equal the document's;
\* its summary and tags equal the document's after a create, and after an
\* update or restore whenever they did before that request (a forceSummarize
\* or forceTags in between changes the document and not the ledger).
C31_NewestEntryTracksDocument ==
    [][(/\ last' # last /\ last'.op \in {"create", "update", "restore"}
        /\ last'.status \in {200, 201} \/ last'.cause = "reread")
       => LET doc == docs'[last'.d]
              old == docs[last'.d]
          IN /\ doc # NoDoc /\ Len(doc.versions) >= 1
             /\ Newest(doc).versionNumber = doc.currentVersion
             /\ Newest(doc).title = doc.title
             /\ Newest(doc).content = doc.content
             /\ last'.op = "create" => Snapshot(Newest(doc)) = Snapshot(doc)
             /\ (last'.op # "create" /\ Snapshot(Newest(old)) = Snapshot(old))
                  => Snapshot(Newest(doc)) = Snapshot(doc)]_vars

\* an update was committed on a document whose tags a forceTags had changed:
\* the newest entry has the counter's number and the document's title and
\* content, and still the tags of the creation
C31_Witness ==
    /\ last.op = "update" /\ last.status = 200
    /\ docs[last.d] # NoDoc
    /\ Newest(docs[last.d]).versionNumber = docs[last.d].currentVersion
    /\ Newest(docs[last.d]).title = docs[last.d].title
    /\ Newest(docs[last.d]).tags # docs[last.d].tags

\* C32: every createDocument, updateDocument, deleteDocument and
\* restoreVersion request that ends has sent exactly one response and has
\* ended its transaction by exactly one of commit or abort: no request ends
\* without a response, and abort is never called after the commit succeeded,
\* also when the read of the document after the commit fails.
C32_OneResponseOneTransactionEnd ==
    [][(last' # last /\ last'.op \in TxnOps)
       => /\ last'.status \in {200, 201, 400, 403, 404, 500}
          /\ last'.cause # "reread"
          /\ last'.status \in {200, 201} => last'.cause = "none"]_vars

\* C33: once a document's isDeleted is true it stays true, and no later
\* request changes the document's fields, ledger or currentVersion or appends
\* an activity record that references it.
C33_DeletedIsFrozen ==
    [][\A d \in DocIds :
         (docs[d] # NoDoc /\ docs[d].isDeleted)
         => /\ docs'[d] = docs[d]
            /\ \A i \in (Len(activities) + 1)..Len(activities') :
                  activities'[i].document # d]_vars

\* C34: an updateDocument in which no field is detected as changed leaves
\* every persisted field of the document unchanged, lastUpdatedBy included,
\* also when the caller is an admin other than the last editor.
C34_UndetectedUpdateWritesNothing ==
    [][(last' # last /\ last'.op = "update" /\ ~last'.changed
          /\ last'.status = 200 /\ docs[last'.d] # NoDoc)
       => docs'[last'.d] = docs[last'.d]]_vars

====
